---- MODULE Spec2Model ----
(***************************************************************************)
(* Model of app.py: analyze_sample_genome (the per-sample VCF scan) and    *)
(* the Streamlit session handlers that call it (randomize_callback and the *)
(* "Run Sentry Pipeline" button).                                          *)
(*                                                                         *)
(* The vcfpy reader is the environment: it yields records one at a time,   *)
(* ends, or raises.  A record carries the fields the scan reads: QUAL,     *)
(* REF, ALT[0].value, POS and the call of the selected sample.  POS is the *)
(* 1-based index of the record in the file, so it also stands for file     *)
(* order.                                                                  *)
(***************************************************************************)
EXTENDS Integers, Sequences, FiniteSets, TLC

\* ------------------------------------------------------------------ bounds
MaxRecords == 3        \* records the reader yields in one scan (Spec)
MaxRecordsTies == 4    \* records the reader yields in one scan (SpecTies)
MaxRecordsUI == 1      \* records the reader yields in one scan (SpecUI)

\* ------------------------------------------------------- program constants
QualCutoff == 20       \* app.py:78   if qual > 20
TopN == 3              \* app.py:91   candidate_variants[:3]
NoneQ == -1            \* encoding of Python None for record.QUAL

\* -------------------------------------------------------------- input sets
Samples == {"A", "B"}                 \* vcf_samples loaded at start-up
Quals == {NoneQ, 20, 30, 50}          \* record.QUAL
Refs == {"A", "AT"}                   \* record.REF
Alts == {"G", "GC"}                   \* record.ALT[0].value
Calls == {"None", "hom_ref", "het", "hom_alt"}  \* call_for_sample.get(id)
NoSample == "<unset>"

\* --------------------------------------------------------- vcfpy interface
\* call.is_variant / call.is_het, the two properties the scan reads
is_variant(call) == call \in {"het", "hom_alt"}
is_het(call) == call = "het"
\* truth value of `call` in `if call and call.is_variant`
CallTruthy(call) == call # "None"

RawRecords == [QUAL : Quals, REF : Refs, ALT : Alts, call : Calls]
\* files in which every record is a variant call of the sample, with
\* qualities at and above the cut-off (SpecTies)
TieRecords == [QUAL : {20, 30, 50}, REF : {"A"}, ALT : {"G"},
               call : {"het", "hom_alt"}]
\* the files behind the dashboard (SpecUI)
UIRecords == [QUAL : {30}, REF : {"A"}, ALT : {"G"}, call : {"het", "hom_ref"}]
NoRecord == [QUAL |-> NoneQ, REF |-> "", ALT |-> "", call |-> "None", POS |-> 0]
WithPos(r, p) ==
    [QUAL |-> r.QUAL, REF |-> r.REF, ALT |-> r.ALT, call |-> r.call, POS |-> p]

\* -------------------------------------------------------------- fractions
\* het_ratio is a quotient of two counters; it is kept as a reduced fraction.
RECURSIVE Gcd(_, _)
Gcd(a, b) == IF b = 0 THEN a ELSE Gcd(b, a % b)
Unset == [num |-> 0, den |-> 0]       \* key "het_ratio" not in the dict yet
Zero == [num |-> 0, den |-> 1]        \* the literal 0 of line 97
Divide(a, b) == [num |-> a \div Gcd(a, b), den |-> b \div Gcd(a, b)]

\* ------------------------------------------------------------------ state
VARIABLES
    pc,                 \* position in analyze_sample_genome / its caller
    sample_id,          \* argument of the call
    exists,             \* what os.path.exists(vcf_path) answered
    header,             \* reader.header.samples.names
    reader,             \* the vcfpy reader: none, ready, eof or failed
    handle,             \* the file opened by Reader.from_path
    stats,              \* the stats dict
    candidate_variants, \* the candidate list
    record,             \* loop variable of `for record in reader`
    ret,                \* value returned by analyze_sample_genome
    err,                \* st.error message shown by the function
    variant_calls,      \* history: POS and QUAL of each record in which
                        \* the sample has a variant call
    nread,              \* history: records yielded by the reader
    selected_id,        \* st.session_state['selected_id']
    origin,             \* st.session_state['origin']
    analysis_complete,  \* st.session_state['analysis_complete']
    genome_stats,       \* st.session_state['genome_stats']
    genome_stats_for    \* history: sample id genome_stats was computed for

fvars == <<pc, sample_id, exists, header, reader, handle, stats, candidate_variants,
           record, ret, err, variant_calls, nread>>
svars == <<selected_id, origin, analysis_complete, genome_stats,
           genome_stats_for>>
vars == <<pc, sample_id, exists, header, reader, handle, stats, candidate_variants,
          record, ret, err, variant_calls, nread, selected_id, origin,
          analysis_complete, genome_stats, genome_stats_for>>

None == [tag |-> "None"]

InitStats ==
    [total_variants |-> 0, heterozygous |-> 0, homozygous |-> 0,
     max_quality |-> 0, top_variants |-> <<>>, het_ratio |-> Unset]

Init ==
    /\ pc = "idle"
    /\ sample_id = NoSample
    /\ exists = FALSE
    /\ header = {}
    /\ reader = "none"
    /\ handle = "none"
    /\ stats = InitStats
    /\ candidate_variants = <<>>
    /\ record = NoRecord
    /\ ret = None
    /\ err = "none"
    /\ variant_calls = <<>>
    /\ nread = 0
    /\ selected_id = NoSample
    /\ origin = "none"
    /\ analysis_complete = FALSE
    /\ genome_stats = None
    /\ genome_stats_for = NoSample

\* ------------------------------------------------- analyze_sample_genome
\* lines 39-46: fresh locals on entry
Enter(s) ==
    /\ pc' = "check_path"
    /\ sample_id' = s
    /\ exists' = FALSE
    /\ header' = {}
    /\ reader' = "none"
    /\ handle' = "none"
    /\ stats' = InitStats
    /\ candidate_variants' = <<>>
    /\ record' = NoRecord
    /\ ret' = None
    /\ err' = "none"
    /\ variant_calls' = <<>>
    /\ nread' = 0

\* The function never closes the reader.  Once it returns, the reader is
\* unreachable and the interpreter may or may not have finalised it.
Released(h) == IF h = "open" THEN {"open", "closed"} ELSE {h}

\* line 49
PathMissing(e) == ~e

\* lines 49-51
CheckPath ==
    /\ pc = "check_path"
    /\ \E e \in BOOLEAN :
        /\ exists' = e
        /\ IF PathMissing(e)
           THEN /\ pc' = "done"
                /\ err' = "NotFound"
                /\ ret' = None
           ELSE /\ pc' = "open"
                /\ UNCHANGED <<err, ret>>
    /\ UNCHANGED <<sample_id, header, reader, handle, stats,
                   candidate_variants, record, variant_calls, nread, svars>>

\* line 53: Reader.from_path opens the file and parses the header
OpenReader ==
    /\ pc = "open"
    /\ \E names \in SUBSET Samples : header' = names
    /\ reader' = "ready"
    /\ handle' = "open"
    /\ pc' = "check_sample"
    /\ UNCHANGED <<sample_id, exists, stats, candidate_variants, record, ret,
                   err, variant_calls, nread, svars>>

\* lines 99-101 handing back the dict built so far
OnExceptionMut(s) == s

\* lines 99-101: what the except clause returns, given the stats so far
OnException(s) == None

\* line 53 raising (unreadable file, malformed header): lines 99-101.
\* The open itself failed, or the header did not parse after the open; no
\* reader object comes into being.
OpenReaderError ==
    /\ pc = "open"
    /\ \E h \in {"none", "open", "closed"} : handle' = h
    /\ pc' = "done"
    /\ err' = "AnalysisError"
    /\ ret' = OnException(stats)
    /\ UNCHANGED <<sample_id, exists, header, reader, stats, candidate_variants,
                   record, variant_calls, nread, svars>>

\* line 56 without the membership test
SampleUnknownMut(s, names) == FALSE

\* line 56
SampleUnknown(s, names) == s \notin names

\* lines 56-58
CheckSample ==
    /\ pc = "check_sample"
    /\ IF SampleUnknown(sample_id, header)
       THEN /\ pc' = "done"
            /\ err' = "UnknownSample"
            /\ ret' = None
            /\ \E h \in Released(handle) : handle' = h
       ELSE /\ pc' = "loop"
            /\ UNCHANGED <<err, ret, handle>>
    /\ UNCHANGED <<sample_id, exists, header, reader, stats,
                   candidate_variants, record, variant_calls, nread, svars>>

\* line 73
Qual(r) == IF r.QUAL # NoneQ /\ r.QUAL # 0 THEN r.QUAL ELSE 0

\* line 86
Description(r) == IF Len(r.REF) = 1 THEN "Type: SNP" ELSE "Type: Indel"

\* lines 79-87
Candidate(r) ==
    [chrom |-> "chr1", pos |-> r.POS, ref |-> r.REF, alt |-> r.ALT,
     qual |-> Qual(r), description |-> Description(r)]

\* line 78
AboveCutoff(q) == q > QualCutoff

\* lines 65-75 with the `else` of line 69 dropped
CountMut(s, r) ==
    [s EXCEPT !.total_variants = @ + 1,
              !.heterozygous = IF is_het(r.call) THEN @ + 1 ELSE @,
              !.homozygous = @ + 1,
              !.max_quality = IF Qual(r) > @ THEN Qual(r) ELSE @]

\* lines 65-75
Count(s, r) ==
    [s EXCEPT !.total_variants = @ + 1,
              !.heterozygous = IF is_het(r.call) THEN @ + 1 ELSE @,
              !.homozygous = IF is_het(r.call) THEN @ ELSE @ + 1,
              !.max_quality = IF Qual(r) > @ THEN Qual(r) ELSE @]

\* line 64 without `and call.is_variant`
RetainedMut(r) == CallTruthy(r.call)

\* line 64
Retained(r) == CallTruthy(r.call) /\ is_variant(r.call)

\* lines 61-87: one iteration of the loop over the record the reader yields
LoopBody(max, recs) ==
    /\ pc = "loop"
    /\ nread < max
    /\ \E raw \in recs :
        LET r == WithPos(raw, nread + 1) IN
        /\ record' = r
        /\ nread' = nread + 1
        /\ variant_calls' =
               IF r.call \in {"het", "hom_alt"}
               THEN Append(variant_calls, [pos |-> r.POS, QUAL |-> r.QUAL])
               ELSE variant_calls
        /\ IF Retained(r)
           THEN /\ stats' = Count(stats, r)
                /\ candidate_variants' =
                       IF AboveCutoff(Qual(r))
                       THEN Append(candidate_variants, Candidate(r))
                       ELSE candidate_variants
           ELSE UNCHANGED <<stats, candidate_variants>>
    /\ UNCHANGED <<pc, sample_id, exists, header, reader, handle, ret, err,
                   svars>>

\* line 61 raising (the reader meets a malformed line): lines 99-101
LoopError ==
    /\ pc = "loop"
    /\ pc' = "done"
    /\ reader' = "failed"
    /\ err' = "AnalysisError"
    /\ ret' = OnException(stats)
    /\ \E h \in Released(handle) : handle' = h
    /\ UNCHANGED <<sample_id, exists, header, stats, candidate_variants,
                   record, variant_calls, nread, svars>>

\* line 90 with an unstable sort: an element goes before its equals
RECURSIVE InsertDescMut(_, _)
InsertDescMut(x, s) ==
    IF s = <<>> THEN <<x>>
    ELSE IF Head(s).qual > x.qual
         THEN <<Head(s)>> \o InsertDescMut(x, Tail(s))
         ELSE <<x>> \o s

\* line 90: list.sort(key=qual, reverse=True) is stable: an element goes
\* after every element already placed whose key is greater or equal.
RECURSIVE InsertDesc(_, _)
InsertDesc(x, s) ==
    IF s = <<>> THEN <<x>>
    ELSE IF Head(s).qual >= x.qual
         THEN <<Head(s)>> \o InsertDesc(x, Tail(s))
         ELSE <<x>> \o s

RECURSIVE SortDesc(_)
SortDesc(s) ==
    IF s = <<>> THEN <<>>
    ELSE InsertDesc(s[Len(s)], SortDesc(SubSeq(s, 1, Len(s) - 1)))

\* line 91 without the slice
TopMut(s) == s

\* line 91
Top(s) == SubSeq(s, 1, IF Len(s) < TopN THEN Len(s) ELSE TopN)

\* line 94 without the test
HetRatioGuardMut(s) == TRUE

\* line 94
HetRatioGuard(s) == s.total_variants > 0

\* lines 89-103: the reader is exhausted; sort, truncate, ratio, return
LoopEnd ==
    /\ pc = "loop"
    /\ pc' = "done"
    /\ reader' = "eof"
    /\ LET sorted == SortDesc(candidate_variants)
           s1 == [stats EXCEPT !.top_variants = Top(sorted)]
       IN /\ candidate_variants' = sorted
          /\ IF HetRatioGuard(s1)
             THEN IF s1.total_variants = 0
                  THEN \* ZeroDivisionError, caught at line 99
                       /\ stats' = s1
                       /\ err' = "AnalysisError"
                       /\ ret' = OnException(s1)
                  ELSE /\ stats' = [s1 EXCEPT !.het_ratio =
                                     Divide(s1.heterozygous, s1.total_variants)]
                       /\ err' = err
                       /\ ret' = stats'
             ELSE /\ stats' = [s1 EXCEPT !.het_ratio = Zero]
                  /\ err' = err
                  /\ ret' = stats'
    /\ \E h \in Released(handle) : handle' = h
    /\ UNCHANGED <<sample_id, exists, header, record, variant_calls, nread,
                   svars>>

\* a caller invoking analyze_sample_genome(vcf_path, sample_id)
Call ==
    /\ pc \in {"idle", "done"}
    /\ \E s \in Samples : Enter(s)
    /\ UNCHANGED svars

\* ------------------------------------------------------ session handlers
\* lines 135-158 without the reset of lines 152 and 158
RandomizeMut ==
    /\ pc = "idle"
    /\ \E s \in Samples, found \in BOOLEAN :
        /\ selected_id' = s
        /\ origin' = IF found THEN "known" ELSE "Unknown Location"
    /\ UNCHANGED <<fvars, analysis_complete, genome_stats, genome_stats_for>>

\* lines 135-158: randomize_callback, run when the button is clicked
Randomize ==
    /\ pc = "idle"
    /\ \E s \in Samples, found \in BOOLEAN :
        /\ selected_id' = s
        /\ origin' = IF found THEN "known" ELSE "Unknown Location"
        /\ analysis_complete' = FALSE
    /\ UNCHANGED <<fvars, genome_stats, genome_stats_for>>

\* lines 212-218: the button is enabled once a subject is selected
RunPipeline ==
    /\ pc = "idle"
    /\ selected_id # NoSample
    /\ Enter(selected_id)
    /\ UNCHANGED svars

\* line 220: truth value of the returned value (a stats dict is never empty)
Truthy(v) == v # None

\* lines 220-225
RunFinish ==
    /\ pc = "done"
    /\ pc' = "idle"
    /\ IF Truthy(ret)
       THEN /\ genome_stats' = ret
            /\ genome_stats_for' = sample_id
            /\ analysis_complete' = TRUE
       ELSE UNCHANGED <<genome_stats, genome_stats_for, analysis_complete>>
    /\ UNCHANGED <<sample_id, exists, header, reader, handle, stats,
                   candidate_variants, record, ret, err, variant_calls, nread,
                   selected_id, origin>>

\* ---------------------------------------------------------- specifications
Scan ==
    \/ CheckPath
    \/ OpenReader
    \/ OpenReaderError
    \/ CheckSample
    \/ LoopError
    \/ LoopEnd

\* analyze_sample_genome under any caller, any file
Next ==
    \/ Call
    \/ Scan
    \/ LoopBody(MaxRecords, RawRecords)

Spec == Init /\ [][Next]_vars

\* analyze_sample_genome on files of variant calls around the cut-off
NextTies ==
    \/ Call
    \/ Scan
    \/ LoopBody(MaxRecordsTies, TieRecords)

SpecTies == Init /\ [][NextTies]_vars

\* the dashboard session: randomize, run, randomize, ...
NextUI ==
    \/ Randomize
    \/ RunPipeline
    \/ RunFinish
    \/ Scan
    \/ LoopBody(MaxRecordsUI, UIRecords)

SpecUI == Init /\ [][NextUI]_vars

\* ------------------------------------------------------------ properties
Min(a, b) == IF a < b THEN a ELSE b
Returned == pc = "done" /\ ret # None
\* the variant calls of the file whose quality is present and exceeds t
Above(t) == {i \in 1..Len(variant_calls) :
                variant_calls[i].QUAL # NoneQ /\ variant_calls[i].QUAL > t}
NonVariant(r) == r.call \in {"None", "hom_ref"}

\* C1: after every record of the scan, and in the returned summary,
\* heterozygous + homozygous = total_variants.
C1_ZygosityPartition ==
    /\ stats.heterozygous + stats.homozygous = stats.total_variants
    /\ ret # None =>
          ret.heterozygous + ret.homozygous = ret.total_variants

C1_Witness ==
    /\ Returned
    /\ ret.heterozygous >= 1
    /\ ret.homozygous >= 1
    /\ ret.total_variants = 3

\* C2: whenever analyze_sample_genome has returned, the file it opened is
\* closed.
C2_HandleReleased == pc = "done" => handle # "open"

\* C3 (as claimed): for every quality_threshold t and every top_k k, the
\* returned list holds only retained records with quality above t, has
\* length min(k, number of retained records above t) and is sorted by
\* descending quality.
TopListOK(top, t, k) ==
    /\ \A i \in 1..Len(top) :
          /\ top[i].qual > t
          /\ \E j \in 1..Len(variant_calls) :
                /\ variant_calls[j].pos = top[i].pos
                /\ variant_calls[j].QUAL = top[i].qual
    /\ Len(top) = Min(k, Cardinality(Above(t)))
    /\ \A i \in 1..Len(top), j \in 1..Len(top) :
          i < j => top[i].qual >= top[j].qual

Thresholds == {20, 30}
TopKs == {2, 3}

C3_AnyThresholdAnyTopK ==
    \A t \in Thresholds, k \in TopKs :
        Returned => TopListOK(ret.top_variants, t, k)

\* C3 (amended): with the threshold fixed at 20 and the cap fixed at 3, the
\* returned list holds only retained records with quality above 20, has
\* length min(3, number of retained records above 20) and is sorted by
\* descending quality.
C3_TopList == Returned => TopListOK(ret.top_variants, QualCutoff, TopN)

C3_Witness ==
    /\ Returned
    /\ Cardinality(Above(QualCutoff)) = 4
    /\ ret.top_variants[1].qual > ret.top_variants[3].qual

\* C4: records of equal quality keep their file order in the returned list,
\* and a record cut off by the truncation comes later in the file than every
\* returned record of the same quality.
C4_StableTies ==
    Returned =>
        LET top == ret.top_variants IN
        /\ \A i \in 1..Len(top), j \in 1..Len(top) :
              (i < j /\ top[i].qual = top[j].qual) => top[i].pos < top[j].pos
        /\ \A c \in Above(QualCutoff) : \A i \in 1..Len(top) :
              (/\ \A j \in 1..Len(top) : top[j].pos # variant_calls[c].pos
               /\ top[i].qual = variant_calls[c].QUAL)
              => top[i].pos < variant_calls[c].pos

C4_Witness ==
    /\ Returned
    /\ Len(ret.top_variants) = 3
    /\ ret.top_variants[2].qual = ret.top_variants[3].qual
    /\ \E c \in Above(QualCutoff) :
          /\ variant_calls[c].QUAL = ret.top_variants[3].qual
          /\ variant_calls[c].pos > ret.top_variants[3].pos

\* C5: a record in the candidate buffer is described as SNP exactly when its
\* reference allele and its first alternate allele both have length 1.
C5_SnpIffBothLengthOne ==
    \A i \in 1..Len(candidate_variants) :
        LET c == candidate_variants[i] IN
        (c.description = "Type: SNP") <=> (Len(c.ref) = 1 /\ Len(c.alt) = 1)

\* C6: a missing path ends in NotFound and a header without the sample ends
\* in UnknownSample; either way nothing is returned and no record was read,
\* and no record is read before both checks have passed.
C6_ValidateFirst ==
    /\ (pc = "done" /\ ~exists) =>
          err = "NotFound" /\ ret = None /\ nread = 0
    /\ (pc = "done" /\ reader # "none" /\ sample_id \notin header) =>
          err = "UnknownSample" /\ ret = None /\ nread = 0
    /\ pc \in {"check_path", "open", "check_sample"} => nread = 0
    /\ pc = "loop" => exists /\ sample_id \in header

C6_Witness ==
    /\ pc = "done"
    /\ exists
    /\ reader = "ready"
    /\ header = {"B"}
    /\ sample_id = "A"

\* C7: when the reader raises during the scan the call reports an error and
\* returns nothing, whatever had been counted so far.
C7_NoPartialSummary ==
    (pc = "done" /\ reader = "failed") => err = "AnalysisError" /\ ret = None

C7_Witness ==
    /\ pc = "done"
    /\ reader = "failed"
    /\ nread = 2
    /\ stats.total_variants = 2
    /\ Len(candidate_variants) = 1

\* C8: a scan that reaches the end of the file returns a summary whose
\* het_ratio is 0 when total_variants is 0 and heterozygous / total_variants
\* otherwise.
C8_HetRatio ==
    (pc = "done" /\ reader = "eof") =>
        /\ ret # None
        /\ err = "none"
        /\ ret.total_variants = 0 => ret.het_ratio = Zero
        /\ ret.total_variants > 0 =>
              /\ ret.het_ratio.den > 0
              /\ ret.het_ratio.num * ret.total_variants =
                     ret.heterozygous * ret.het_ratio.den

C8_Witness ==
    /\ pc = "done"
    /\ reader = "eof"
    /\ nread = 2
    /\ ret # None
    /\ ret.total_variants = 0
    /\ ret.het_ratio = Zero

C10_SessionConsistent ==
    /\ [](analysis_complete =>
            genome_stats # None /\ genome_stats_for = selected_id)
    /\ [][(pc = "idle" /\ pc' = "idle") => ~analysis_complete']_vars
    /\ [][(~analysis_complete /\ analysis_complete')
            => (pc = "done" /\ ret # None /\ genome_stats' = ret
                /\ sample_id = selected_id)]_vars

C10_Witness ==
    /\ pc = "done"
    /\ ret = None
    /\ analysis_complete
    /\ selected_id = "B"
    /\ genome_stats # None
    /\ genome_stats.total_variants = 1

====
